---------------------------- MODULE Spec2Model ----------------------------
(***************************************************************************)
(* Model of onebot.plugins.users: the User record and the UsersPlugin      *)
(* registry (tracked channels, nick -> User map) driven by IRC events.     *)
(* Every handler is an operator from the registry state to the registry    *)
(* state it leaves behind plus the exception it raised, if any; an action  *)
(* applies one handler to one event.                                       *)
(***************************************************************************)
EXTENDS Integers, Sequences, FiniteSets, TLC

(***************************************************************************)
(* Bound of the model: the number of nicknames besides the bot's own.      *)
(***************************************************************************)
NumUsers == 2

UserNames == <<"alice", "bob", "carol", "dave">>

\* bot.nick, read by quit and part
BotNick == "onebot"

UserNicks == {UserNames[i] : i \in 1..NumUsers}

Nicks == {BotNick} \cup UserNicks

Channels == {"#a", "#b"}

Usernames == {"user"}

Servers == {"h1", "h2"}

\* a sender mask nick!username@server
Masks == [nick : Nicks, username : Usernames, server : Servers]

\* IrcString.nick: the part of the mask before '!'
MaskNick(mask) == mask.nick

\* IrcString.host: the part of the mask after '!', that is username@server
MaskHost(mask) == <<mask.username, mask.server>>

\* the values of the identify_by option: the supported one and another one
IdentifyingMethods == {"mask", "nickserv"}

NoError == "none"

VARIABLES
    identifying_method, \* UsersPlugin.identifying_method
    channels,           \* UsersPlugin.channels
    active_users,       \* UsersPlugin.active_users: function nick -> User
    ev,                 \* the kind of the event handled last
    err,                \* the exception the last handler raised, or NoError
    changed             \* whether the last handler changed channels or active_users

vars == <<identifying_method, channels, active_users, ev, err, changed>>

(***************************************************************************)
(* class User                                                              *)
(***************************************************************************)
\* User.__init__
User(mask, chans, id_) ==
    [nick |-> MaskNick(mask), host |-> MaskHost(mask), channels |-> chans, id |-> id_]

\* User.join: set.add
UserJoin(user, channel) ==
    [user EXCEPT !.channels = @ \cup {channel}]

\* User.part: set.remove raises KeyError when the channel is not in the set
UserPartDiscards(user, channel) == FALSE

UserPartRaises(user, channel) == channel \notin user.channels

UserPart(user, channel) ==
    [user EXCEPT !.channels = @ \ {channel}]

\* User.still_in_channels
still_in_channels(user) == Cardinality(user.channels) > 0

\* User.getid
getid(user) == user.id

(***************************************************************************)
(* class UsersPlugin.  A handler maps the registry state st (a record of   *)
(* channels and active_users) to the state it leaves and its exception.    *)
(***************************************************************************)
Result(chs, au, e) == [channels |-> chs, active_users |-> au, err |-> e]

\* dict assignment d[k] = v
DictSet(d, k, v) == [n \in DOMAIN d \cup {k} |-> IF n = k THEN v ELSE d[n]]

\* del d[k]
DictDel(d, k) == [n \in DOMAIN d \ {k} |-> d[n]]

EmptyDict == [n \in {} |-> n]

None == [none |-> TRUE]

\* User.get_settings and User.get_setting, with the collection they read
\* the names and the default a caller passes to get_setting
SettingNames == {"lang", "tz"}

Defaults == {"fallback"}

\* the documents of database.users: a dict with the key 'id' and settings
Documents ==
    {("id" :> <<"user", s>>) @@ d :
        s \in Servers,
        d \in {("lang" :> "en"), ("lang" :> "nl") @@ ("tz" :> "utc")}}

\* the contents database.users can have: up to two documents, in find order
Databases == {<<>>} \cup {<<d>> : d \in Documents} \cup (Documents \X Documents)

\* Collection.find_one({'id': id_}): the first document with that id, or None
RECURSIVE find_one(_, _, _)
find_one(users, id_, i) ==
    IF i > Len(users) THEN None
    ELSE IF users[i]["id"] = id_ THEN users[i]
    ELSE find_one(users, id_, i + 1)

\* dict.get(key, default)
DictGet(d, key, default) == IF key \in DOMAIN d THEN d[key] ELSE default

\* get_settings looking the document up by nick
get_settings_by_nick(users, user) == find_one(users, <<user.nick>>, 1)

\* User.get_settings; users is the content of self.database.users
get_settings(users, user) == find_one(users, user.id, 1)

\* User.get_setting
get_setting(users, user, setting, default) ==
    LET document == get_settings(users, user)
    IN  IF document # None THEN DictGet(document, setting, default) ELSE default

\* UsersPlugin.get_user: dict.get(nick, None)
get_user(au, nick) == IF nick \in DOMAIN au THEN au[nick] ELSE None

\* UsersPlugin.create_user raises ValueError unless identifying by mask
create_user_raises == identifying_method # "mask"

create_user(mask, chans) == User(mask, chans, MaskHost(mask))

\* UsersPlugin.connection_lost
connection_lost == Result({}, EmptyDict, NoError)

\* join with the final User.join moved into an else branch and the User
\* created without its channel
join_else(st, nick, mask, channel) ==
    LET chs == st.channels \cup {channel}
        au == st.active_users
    IN  IF nick \notin DOMAIN au
        THEN IF create_user_raises
             THEN Result(chs, au, "ValueError")
             ELSE Result(chs, DictSet(au, nick, create_user(mask, {})), NoError)
        ELSE Result(chs, DictSet(au, nick, UserJoin(au[nick], channel)), NoError)

\* UsersPlugin.join
join(st, nick, mask, channel) ==
    LET chs == st.channels \cup {channel}
        au == st.active_users
    IN  IF nick \notin DOMAIN au /\ create_user_raises
        THEN Result(chs, au, "ValueError")
        ELSE LET au1 == IF nick \notin DOMAIN au
                        THEN DictSet(au, nick, create_user(mask, {channel}))
                        ELSE au
             IN  Result(chs, DictSet(au1, nick, UserJoin(au1[nick], channel)), NoError)

\* quit without the nick == bot.nick branch
quit_no_reset(st, nick) ==
    IF nick \in DOMAIN st.active_users
    THEN Result(st.channels, DictDel(st.active_users, nick), NoError)
    ELSE Result(st.channels, st.active_users, NoError)

\* UsersPlugin.quit
quit(st, nick) ==
    LET s1 == IF nick = BotNick THEN connection_lost ELSE st
    IN  IF nick \in DOMAIN s1.active_users
        THEN Result(s1.channels, DictDel(s1.active_users, nick), NoError)
        ELSE Result(s1.channels, s1.active_users, NoError)

\* the orders in which a dict with these keys can be iterated
RECURSIVE Orders(_)
Orders(keys) ==
    IF keys = {} THEN {<<>>}
    ELSE UNION {{<<k>> \o o : o \in Orders(keys \ {k})} : k \in keys}

\* UsersPlugin.part, the loop of the nick == bot.nick branch: one iteration
\* per entry of the copy, from position i of the iteration order on
RECURSIVE part_loop(_, _, _, _)
part_loop(st, order, i, channel) ==
    IF i > Len(order) THEN st
    ELSE LET n == order[i]
             user == st.active_users[n]
         IN  IF UserPartRaises(user, channel)
             THEN [st EXCEPT !.err = "KeyError"]
             ELSE LET parted == UserPart(user, channel)
                      au == IF still_in_channels(parted)
                            THEN DictSet(st.active_users, n, parted)
                            ELSE DictDel(st.active_users, n)
                  IN  IF channel \notin st.channels
                      THEN Result(st.channels, au, "KeyError")
                      ELSE part_loop(Result(st.channels \ {channel}, au, NoError),
                                     order, i + 1, channel)

\* part untracking the channel when the record that leaves was deleted
part_nick_untracks(st, nick, channel) ==
    IF nick \notin DOMAIN st.active_users THEN st
    ELSE IF UserPartRaises(st.active_users[nick], channel)
    THEN [st EXCEPT !.err = "KeyError"]
    ELSE LET parted == UserPart(st.active_users[nick], channel)
         IN  IF still_in_channels(parted)
             THEN Result(st.channels, DictSet(st.active_users, nick, parted), NoError)
             ELSE Result(st.channels \ {channel}, DictDel(st.active_users, nick), NoError)

\* part keeping a record whose last channel was removed
part_nick_keeps_empty(st, nick, channel) ==
    IF nick \notin DOMAIN st.active_users THEN st
    ELSE IF UserPartRaises(st.active_users[nick], channel)
    THEN [st EXCEPT !.err = "KeyError"]
    ELSE Result(st.channels,
                DictSet(st.active_users, nick, UserPart(st.active_users[nick], channel)),
                NoError)

\* UsersPlugin.part, from "if nick not in self.active_users" on
part_nick(st, nick, channel) ==
    IF nick \notin DOMAIN st.active_users THEN st
    ELSE IF UserPartRaises(st.active_users[nick], channel)
    THEN [st EXCEPT !.err = "KeyError"]
    ELSE LET parted == UserPart(st.active_users[nick], channel)
         IN  IF still_in_channels(parted)
             THEN Result(st.channels, DictSet(st.active_users, nick, parted), NoError)
             ELSE Result(st.channels, DictDel(st.active_users, nick), NoError)

\* UsersPlugin.part; order is the iteration order of active_users.copy().items()
part(st, nick, channel, order) ==
    LET s0 == Result(st.channels, st.active_users, NoError)
        s1 == IF nick = BotNick THEN part_loop(s0, order, 1, channel) ELSE s0
    IN  IF s1.err # NoError THEN s1 ELSE part_nick(s1, nick, channel)

\* on_kick parting the kicker, mask.nick, instead of the target
on_kick_kicker(st, mask, target, channel, order) == part(st, mask, channel, order)

\* UsersPlugin.on_kick
on_kick(st, mask, target, channel, order) == part(st, target, channel, order)

\* on_new_nick without the assignment to user.nick
on_new_nick_keeps_nick(st, nick, new_nick) ==
    IF nick \in DOMAIN st.active_users
    THEN Result(st.channels,
                DictDel(DictSet(st.active_users, new_nick, st.active_users[nick]), nick),
                NoError)
    ELSE Result(st.channels, st.active_users, NoError)

\* on_new_nick building the renamed User anew from its nick, as create_user does
on_new_nick_recreate(st, nick, new_nick) ==
    IF nick \in DOMAIN st.active_users
    THEN LET user == [st.active_users[nick] EXCEPT !.nick = new_nick,
                                                   !.id = <<new_nick>>]
         IN  Result(st.channels,
                    DictDel(DictSet(st.active_users, new_nick, user), nick),
                    NoError)
    ELSE Result(st.channels, st.active_users, NoError)

\* UsersPlugin.on_new_nick
on_new_nick(st, nick, new_nick) ==
    IF nick \in DOMAIN st.active_users
    THEN LET user == [st.active_users[nick] EXCEPT !.nick = new_nick]
         IN  Result(st.channels,
                    DictDel(DictSet(st.active_users, new_nick, user), nick),
                    NoError)
    ELSE Result(st.channels, st.active_users, NoError)

\* on_privmsg replacing the record of a known nick by one made from the
\* mask of the message
on_privmsg_recreate(st, mask, target) ==
    LET au == st.active_users
        nick == MaskNick(mask)
    IN  IF target \notin st.channels THEN Result(st.channels, au, NoError)
        ELSE IF create_user_raises
        THEN Result(st.channels, au, "ValueError")
        ELSE Result(st.channels,
                    DictSet(au, nick,
                            create_user(mask, {target} \cup
                                IF nick \in DOMAIN au THEN au[nick].channels ELSE {})),
                    NoError)

\* UsersPlugin.on_privmsg
on_privmsg(st, mask, target) ==
    LET au == st.active_users
        nick == MaskNick(mask)
    IN  IF target \notin st.channels THEN Result(st.channels, au, NoError)
        ELSE IF nick \notin DOMAIN au
        THEN IF create_user_raises
             THEN Result(st.channels, au, "ValueError")
             ELSE Result(st.channels, DictSet(au, nick, create_user(mask, {target})), NoError)
        ELSE Result(st.channels, DictSet(au, nick, UserJoin(au[nick], target)), NoError)

\* UsersPlugin.on_who
on_who(st, channel, nick, username, server) ==
    LET au == st.active_users
        mask == [nick |-> nick, username |-> username, server |-> server]
    IN  IF channel \notin st.channels THEN Result(st.channels, au, NoError)
        ELSE IF nick \notin DOMAIN au
        THEN IF create_user_raises
             THEN Result(st.channels, au, "ValueError")
             ELSE Result(st.channels, DictSet(au, nick, create_user(mask, {channel})), NoError)
        ELSE Result(st.channels, DictSet(au, nick, UserJoin(au[nick], channel)), NoError)

(***************************************************************************)
(* The state machine                                                       *)
(***************************************************************************)
\* the registry state the handlers read
State == [channels |-> channels, active_users |-> active_users]

\* the handler's result becomes the registry state
Apply(r, e) ==
    /\ channels' = r.channels
    /\ active_users' = r.active_users
    /\ err' = r.err
    /\ ev' = e
    /\ changed' = (r.channels # channels \/ r.active_users # active_users)
    /\ UNCHANGED identifying_method

\* UsersPlugin.__init__: reads identify_by, then connection_lost()
Init ==
    /\ identifying_method \in IdentifyingMethods
    /\ channels = connection_lost.channels
    /\ active_users = connection_lost.active_users
    /\ err = NoError
    /\ ev = "init"
    /\ changed = FALSE

\* on_join_part_quit with event JOIN
Join ==
    \E mask \in Masks, c \in Channels :
        Apply(join(State, MaskNick(mask), mask, c), "join")

\* the iteration orders part can see: only the bot's own departure iterates
PartOrders(au, nick) == IF nick = BotNick THEN Orders(DOMAIN au) ELSE {<<>>}

\* on_join_part_quit with event PART
Part ==
    \E nick \in Nicks, c \in Channels : \E order \in PartOrders(active_users, nick) :
        Apply(part(State, nick, c, order), "part")

\* on_join_part_quit with event QUIT
Quit ==
    \E nick \in Nicks :
        Apply(quit(State, nick), "quit")

\* on_kick reads the kicker's mask for its log line only
Kickers == {BotNick, UserNames[1]}

Kick ==
    \E kicker \in Kickers, target \in Nicks, c \in Channels : \E order \in PartOrders(active_users, target) :
        Apply(on_kick(State, kicker, target, c, order), "kick")

NewNick ==
    \E nick \in Nicks, new_nick \in Nicks :
        Apply(on_new_nick(State, nick, new_nick), "renamed")

\* the target of a PRIVMSG is a channel or, for a direct message, the bot
Privmsg ==
    \E mask \in Masks, target \in Channels \cup {BotNick} :
        Apply(on_privmsg(State, mask, target), "privmsg")

Who ==
    \E c \in Channels, nick \in Nicks, username \in Usernames, server \in Servers :
        Apply(on_who(State, c, nick, username, server), "who")

ConnectionLost ==
    Apply(connection_lost, "connection_lost")

Next ==
    \/ Join
    \/ Part
    \/ Quit
    \/ Kick
    \/ NewNick
    \/ Privmsg
    \/ Who
    \/ ConnectionLost

Spec == Init /\ [][Next]_vars

\* identify_by left at its default, 'mask'
InitDefault == Init /\ identifying_method = "mask"

SpecDefault == InitDefault /\ [][Next]_vars

(***************************************************************************)
(* Properties                                                              *)
(***************************************************************************)
\* the registry part of a handler's result, to feed the next handler
StateOf(r) == [channels |-> r.channels, active_users |-> r.active_users]

Empty(r) == r.channels = {} /\ DOMAIN r.active_users = {}

\* C1: self-departure cascade.  In every reachable state where channel c is
\* tracked, part(botNick, c) raises nothing, leaves c untracked, drops every
\* user whose only channel was c and keeps every other user with its
\* channel set minus c.
C1_SelfDepartureCascade ==
    \A c \in channels : \A order \in PartOrders(active_users, BotNick) :
        LET r == part(State, BotNick, c, order)
        IN  /\ r.err = NoError
            /\ c \notin r.channels
            /\ \A n \in DOMAIN active_users :
                  IF active_users[n].channels = {c}
                  THEN get_user(r.active_users, n) = None
                  ELSE /\ n \in DOMAIN r.active_users
                       /\ r.active_users[n].channels = active_users[n].channels \ {c}

\* C2: in every reachable state every channel in a tracked record's channel
\* set is a tracked channel.
C2_RecordChannelsTracked ==
    \A n \in DOMAIN active_users : active_users[n].channels \subseteq channels

\* C3: an event whose handler raises leaves the tracked channels and every
\* nick -> record entry exactly as they were before the event.
C3_ErrorLeavesStateUnchanged ==
    [][err' # NoError => channels' = channels /\ active_users' = active_users]_vars

\* C4: connection reset.  connection_lost() and quit(botNick) leave the empty
\* state from every reachable state, and in the state they leave every part,
\* kick, privateMessage and bulkWhoReply event leaves the state empty and
\* raises nothing.
C4_ConnectionReset ==
    \A reset \in {connection_lost, quit(State, BotNick)} :
        /\ Empty(reset)
        /\ reset.err = NoError
        /\ \A n \in Nicks : get_user(reset.active_users, n) = None
        /\ \A nick \in Nicks, c \in Channels :
              \A order \in PartOrders(reset.active_users, nick) :
                 /\ part(StateOf(reset), nick, c, order) = Result({}, EmptyDict, NoError)
                 /\ \A kicker \in Nicks :
                       on_kick(StateOf(reset), kicker, nick, c, order)
                           = Result({}, EmptyDict, NoError)
        /\ \A mask \in Masks, target \in Channels \cup {BotNick} :
              on_privmsg(StateOf(reset), mask, target) = Result({}, EmptyDict, NoError)
        /\ \A mask \in Masks, c \in Channels :
              on_who(StateOf(reset), c, mask.nick, mask.username, mask.server)
                  = Result({}, EmptyDict, NoError)

\* a quit has just emptied a registry that was not empty, and the events
\* C4 names are ignored in the state it left
C4_Witness ==
    /\ ev = "quit"
    /\ changed
    /\ Empty(State)
    /\ err = NoError
    /\ identifying_method = "mask"
    /\ part(State, "alice", "#a", <<>>) = Result({}, EmptyDict, NoError)
    /\ \A c \in Channels : on_who(State, c, "alice", "user", "h1") = Result({}, EmptyDict, NoError)

\* C5: identity stability across rename.  For a tracked oldNick and a
\* newNick different from it, after renamed(oldNick, newNick) get_user(newNick)
\* has the identity, host and channel set of the old record and the nick
\* newNick, and get_user(oldNick) is absent.
C5_RenameKeepsIdentity ==
    \A old \in DOMAIN active_users : \A new \in Nicks \ {old} :
        LET r == on_new_nick(State, old, new)
            u == get_user(r.active_users, new)
        IN  /\ r.err = NoError
            /\ u # None
            /\ getid(u) = getid(active_users[old])
            /\ u.host = active_users[old].host
            /\ u.channels = active_users[old].channels
            /\ u.nick = new
            /\ get_user(r.active_users, old) = None

\* a rename has just changed the registry, and its only record is keyed bob
C5_Witness ==
    /\ ev = "renamed"
    /\ changed
    /\ err = NoError
    /\ DOMAIN active_users = {"bob"}
    /\ active_users["bob"].nick = "bob"
    /\ getid(active_users["bob"]) = <<"user", "h2">>
    /\ active_users["bob"].channels = {"#a", "#b"}

\* C6: departure completeness.  For every nick, the bot's included, whose
\* record has channel set exactly {c}, after part(nick, c) get_user(nick) is
\* absent.
C6_DepartureCompleteness ==
    \A nick \in DOMAIN active_users : \A c \in Channels :
        active_users[nick].channels = {c} =>
            \A order \in PartOrders(active_users, nick) :
                get_user(part(State, nick, c, order).active_users, nick) = None

\* C7: contract violation on part.  For a tracked nick other than the bot's
\* whose channel set lacks z, part(nick, z) raises and leaves the nick's
\* record unchanged.
C7_PartOfUnjoinedChannelRaises ==
    \A nick \in DOMAIN active_users \ {BotNick} : \A z \in Channels :
        z \notin active_users[nick].channels =>
            \A order \in PartOrders(active_users, nick) :
                LET r == part(State, nick, z, order)
                IN  /\ r.err # NoError
                    /\ get_user(r.active_users, nick) = active_users[nick]

\* a part has just raised KeyError and changed nothing, with the bot
\* untracked and alice tracked in a tracked channel but not in every channel
C7_Witness ==
    /\ ev = "part"
    /\ err = "KeyError"
    /\ ~changed
    /\ DOMAIN active_users = {"alice"}
    /\ active_users["alice"].channels = {"#a"}
    /\ channels = {"#a"}

\* C8: an unsupported identify_by value makes the construction fail, so a
\* registry configured with one never handles an event, and no handler
\* raises the configuration error at event time.
C8_ConfigurationErrorAtStartup ==
    /\ identifying_method # "mask" => ev = "init"
    /\ err # "ValueError"

\* C9: join visibility.  From any reachable state, after join(nick, mask, c)
\* channel c is tracked and get_user(nick) is a record containing c: {c} for
\* an unknown nick, the old channel set plus c for a known one.
C9_JoinVisibility ==
    \A mask \in Masks, c \in Channels :
        LET nick == MaskNick(mask)
            r == join(State, nick, mask, c)
            u == get_user(r.active_users, nick)
        IN  /\ c \in r.channels
            /\ u # None
            /\ c \in u.channels
            /\ u.channels = IF nick \in DOMAIN active_users
                            THEN active_users[nick].channels \cup {c}
                            ELSE {c}

\* C10: join idempotence.  From any reachable state join(nick, mask, c)
\* applied twice leaves the tracked channels and the records that applying
\* it once leaves.
C10_JoinIdempotent ==
    \A mask \in Masks, c \in Channels :
        LET once == join(State, MaskNick(mask), mask, c)
            twice == join(StateOf(once), MaskNick(mask), mask, c)
        IN  StateOf(twice) = StateOf(once)

\* a join of a channel its nick is already recorded in has just been
\* handled and changed nothing
C10_Witness ==
    /\ ev = "join"
    /\ ~changed
    /\ err = NoError
    /\ \E mask \in Masks, c \in Channels :
          /\ MaskNick(mask) \in DOMAIN active_users
          /\ active_users[MaskNick(mask)].channels = {"#a", c}
          /\ c # "#a"
          /\ StateOf(join(State, MaskNick(mask), mask, c)) = State

\* C11: WHO-reply gating.  A bulkWhoReply for a channel that is not tracked
\* leaves the whole registry unchanged; for a tracked channel get_user(nick)
\* is present afterwards with the channel in its set.
C11_WhoReplyGating ==
    \A c \in Channels, mask \in Masks :
        LET r == on_who(State, c, mask.nick, mask.username, mask.server)
            u == get_user(r.active_users, mask.nick)
        IN  IF c \notin channels
            THEN StateOf(r) = State
            ELSE u # None /\ c \in u.channels

\* C12: in every reachable state every tracked record has a non-empty
\* channel set, also after an event whose handler raised.
C12_RecordsHaveChannels ==
    \A n \in DOMAIN active_users : active_users[n].channels # {}

\* a part has just raised KeyError after changing the registry, and records
\* are still tracked
C12_Witness ==
    /\ ev = "part"
    /\ err = "KeyError"
    /\ changed
    /\ DOMAIN active_users # {}

\* C13: settings lookup.  get_setting(name, default) returns the value
\* stored under name in the document keyed by the record's identity, and
\* default when there is no such document or it lacks name; the result for
\* a record is the same before and after it is renamed.
C13_SettingsLookup ==
    \A n \in DOMAIN active_users :
        LET user == active_users[n]
            renamed == {on_new_nick(State, n, new).active_users[new] : new \in Nicks \ {n}}
        IN  \A users \in Databases :
               LET found == {i \in 1..Len(users) : users[i]["id"] = user.id}
                   first == CHOOSE i \in found : \A j \in found : i <= j
               IN  \A name \in SettingNames, default \in Defaults :
                      LET value == get_setting(users, user, name, default)
                      IN  /\ found = {} => value = default
                          /\ found # {} /\ name \notin DOMAIN users[first] => value = default
                          /\ found # {} /\ name \in DOMAIN users[first] =>
                                value = users[first][name]
                          /\ \A u \in renamed :
                                get_setting(users, u, name, default) = value

\* a rename has just changed the registry and alice's record, identified by
\* user@h1, finds its stored language and falls back for the missing key
C13_Witness ==
    /\ ev = "renamed"
    /\ changed
    /\ "alice" \in DOMAIN active_users
    /\ active_users["alice"].id = <<"user", "h1">>
    /\ LET users == <<("id" :> <<"user", "h2">>) @@ ("lang" :> "nl") @@ ("tz" :> "utc"),
                      ("id" :> <<"user", "h1">>) @@ ("lang" :> "en")>>
       IN  /\ get_setting(users, active_users["alice"], "lang", "fallback") = "en"
           /\ get_setting(users, active_users["alice"], "tz", "fallback") = "fallback"
           /\ get_setting(<<>>, active_users["alice"], "lang", "fallback") = "fallback"

\* C14: order independence of self-departure.  For every reachable state
\* and channel c, part(botNick, c) leaves the same tracked channels and
\* records and the same exception for every order in which the records are
\* visited.
C14_SelfDepartureOrderIndependent ==
    \A c \in Channels :
        \A o1 \in PartOrders(active_users, BotNick), o2 \in PartOrders(active_users, BotNick) :
            part(State, BotNick, c, o1) = part(State, BotNick, c, o2)

\* C15: lazy discovery by message.  A privateMessage whose target is not a
\* tracked channel, a direct message included, leaves the registry
\* unchanged; with a tracked target the sender's nick maps afterwards to a
\* record containing target ({target} for an unknown nick, the old set
\* plus target for a known one) and the tracked channels and all other
\* records are unchanged.
C15_LazyDiscoveryByMessage ==
    \A mask \in Masks, target \in Channels \cup {BotNick} :
        LET nick == MaskNick(mask)
            r == on_privmsg(State, mask, target)
            u == get_user(r.active_users, nick)
        IN  IF target \notin channels
            THEN StateOf(r) = State
            ELSE /\ u # None
                 /\ u.channels = IF nick \in DOMAIN active_users
                                 THEN active_users[nick].channels \cup {target}
                                 ELSE {target}
                 /\ r.channels = channels
                 /\ \A n \in Nicks \ {nick} :
                       get_user(r.active_users, n) = get_user(active_users, n)

\* C16: kick equals part of the target.  From any reachable state, for
\* every kicker, target and channel, kick(kicker, target, channel) leaves the
\* state and the exception that part(target, channel) leaves, whoever the
\* kicker is and also when the target is the bot.
C16_KickIsPartOfTarget ==
    \A target \in Nicks, c \in Channels :
        \A order \in PartOrders(active_users, target) :
            LET parted == part(State, target, c, order)
            IN  \A kicker \in Nicks :
                   on_kick(State, kicker, target, c, order) = parted

\* a kick has just taken bob out of his last channel, with the bot and alice
\* still tracked
C16_Witness ==
    /\ ev = "kick"
    /\ changed
    /\ err = NoError
    /\ DOMAIN active_users = {BotNick, "alice"}
    /\ channels = {"#a", "#b"}
    /\ active_users[BotNick].channels = {"#a", "#b"}

\* C17: frame of non-bot departures.  For a nick other than the bot's,
\* part(nick, c) and quit(nick) leave the tracked channels and every other
\* nick's record unchanged, and for an untracked nick they leave the whole
\* state unchanged and raise nothing.
C17_NonBotDepartureFrame ==
    \A nick \in Nicks \ {BotNick} :
        \A r \in {quit(State, nick)}
                 \cup {part(State, nick, c, o) :
                          c \in Channels, o \in PartOrders(active_users, nick)} :
            /\ r.channels = channels
            /\ \A n \in Nicks \ {nick} :
                  get_user(r.active_users, n) = get_user(active_users, n)
            /\ nick \notin DOMAIN active_users =>
                  StateOf(r) = State /\ r.err = NoError

\* a quit has just removed a record and left the bot's record and the
\* tracked channel alone
C17_Witness ==
    /\ ev = "quit"
    /\ changed
    /\ err = NoError
    /\ DOMAIN active_users = {BotNick}
    /\ channels = {"#a"}
    /\ active_users[BotNick].channels = {"#a"}

\* the records both registries track have the same identity and host
SameIdentities(before, after) ==
    \A n \in DOMAIN before \cap DOMAIN after :
        after[n].id = before[n].id /\ after[n].host = before[n].host

\* C18: identity is fixed at creation.  In every reachable state each
\* record's identity equals its host, and no event changes the identity or
\* the host of a record that stays tracked: not renamed, and not join,
\* privateMessage or bulkWhoReply with other sender information.
C18_IdentityFixedAtCreation ==
    /\ \A n \in DOMAIN active_users : getid(active_users[n]) = active_users[n].host
    /\ \A mask \in Masks, c \in Channels :
          /\ SameIdentities(active_users,
                            join(State, MaskNick(mask), mask, c).active_users)
          /\ SameIdentities(active_users, on_privmsg(State, mask, c).active_users)
          /\ SameIdentities(active_users,
                            on_who(State, c, mask.nick, mask.username,
                                   mask.server).active_users)
    /\ \A nick \in Nicks :
          /\ SameIdentities(active_users, quit(State, nick).active_users)
          /\ \A c \in Channels, o \in PartOrders(active_users, nick) :
                SameIdentities(active_users, part(State, nick, c, o).active_users)
    /\ \A old \in DOMAIN active_users, new \in Nicks :
          LET after == on_new_nick(State, old, new).active_users
          IN  \A n \in DOMAIN after :
                 LET was == IF n = new THEN active_users[old] ELSE active_users[n]
                 IN  after[n].id = was.id /\ after[n].host = was.host

\* a message has just added a channel to alice's record, the only one
C18_Witness ==
    /\ ev = "privmsg"
    /\ changed
    /\ err = NoError
    /\ DOMAIN active_users = {"alice"}
    /\ active_users["alice"].channels = {"#a", "#b"}
    /\ getid(active_users["alice"]) = <<"user", "h2">>

\* C19: rename destroys nothing.  For every oldNick and newNick, equal or
\* already tracked included, renamed(oldNick, newNick) leaves the number of
\* records, the tracked channels and every record of a third nick
\* unchanged; a tracked oldNick's record is still tracked afterwards, under
\* newNick, with the same channel set, and for an untracked oldNick the
\* whole state is unchanged.
C19_RenameDestroysNothing ==
    \A old \in Nicks, new \in Nicks :
        LET r == on_new_nick(State, old, new)
        IN  /\ Cardinality(DOMAIN r.active_users) = Cardinality(DOMAIN active_users)
            /\ r.channels = channels
            /\ \A n \in Nicks \ {old, new} :
                  get_user(r.active_users, n) = get_user(active_users, n)
            /\ old \in DOMAIN active_users =>
                  /\ new \in DOMAIN r.active_users
                  /\ r.active_users[new].channels = active_users[old].channels
            /\ old \notin DOMAIN active_users => StateOf(r) = State

\* C20: key/nick consistency.  In every reachable state every record's nick
\* is the nickname it is keyed under, so no record is found under two
\* nicknames.
C20_KeyIsNick ==
    /\ \A n \in DOMAIN active_users : active_users[n].nick = n
    /\ \A n \in DOMAIN active_users, m \in DOMAIN active_users :
          active_users[n] = active_users[m] => n = m

\* a rename has just re-keyed a record while the bot's stayed, and both are
\* keyed by their nick
C20_Witness ==
    /\ ev = "renamed"
    /\ changed
    /\ DOMAIN active_users = {BotNick, "bob"}
    /\ active_users["bob"].nick = "bob"
    /\ active_users["bob"].channels = {"#a"}
    /\ active_users[BotNick].channels = {"#a"}

TypeOK ==
    /\ identifying_method \in IdentifyingMethods
    /\ channels \subseteq Channels
    /\ DOMAIN active_users \subseteq Nicks
    /\ \A n \in DOMAIN active_users :
          /\ active_users[n].nick \in Nicks
          /\ active_users[n].channels \subseteq Channels
    /\ err \in {NoError, "KeyError", "ValueError"}
    /\ changed \in BOOLEAN
=============================================================================
